---- MODULE Spec2Model ----
(***************************************************************************)
(* Model of icu_monitor_one_shot.py: a one-shot course-seat monitor.       *)
(* One invocation fetches every configured page, parses the rows of each   *)
(* page into {code -> {open, seats}}, filters the merged mapping, compares *)
(* it with the baseline stored in state.json, notifies the changes and     *)
(* writes the baseline back.                                               *)
(*                                                                         *)
(* Text is a sequence of one-character strings.  A Python dict is a        *)
(* sequence of entries [k |-> key, v |-> value] in insertion order.        *)
(***************************************************************************)
EXTENDS Integers, Sequences, FiniteSets, TLC

VARIABLES
    COURSE_CODES,    \* config: exact-code allow-list (sequence of texts)
    CODE_PREFIXES,   \* config: prefix allow-list (sequence of texts)
    INITIAL_NOTIFY,  \* config: notify on the first run
    DISCORD_WEBHOOK_URL,  \* config: the webhook to post to ("" when unset)
    stateFile,       \* content of state.json
    pc,              \* "fetch" | "exit" | "parse" | "filter"
    url,             \* index into PORTAL_URLS of the next page to fetch
    merged,          \* fetch_all's accumulator
    effects,         \* this run's notify() messages and state-file writes, in order
    warnings,        \* this run's "[WARN] Discord notify failed" lines on stderr
    outcome,         \* "running" | "ok" | "fetch_error" | "parse_error" | "state_error"
                     \* | "notify_error"
    first_run,       \* main's first_run flag of this run (FALSE until computed)
    fetchFailed,     \* some HTTP request of this run failed
    fileBefore,      \* state.json as it was when this run started
    seenBefore,      \* codes of the filtered latest of the previous completed run
    goneBefore,      \* codes an earlier run emitted a disappearance event for
    html             \* parse_page's argument (used by SpecParse only)

vars == <<COURSE_CODES, CODE_PREFIXES, INITIAL_NOTIFY, DISCORD_WEBHOOK_URL, stateFile,
          pc, url, merged, effects, warnings, outcome, first_run, fetchFailed,
          fileBefore, seenBefore, goneBefore, html>>

\* ------------------------------------------------------------------ bounds
MaxRows == 1         \* most rows of a page of the main model (its two pages
                     \* together show every mapping over Codes)
MaxParseRows == 2    \* most rows of a page given to parse_page alone

\* ------------------------------------------------------------------ text
Upper == {"A", "B", "C", "X", "Y", "Z"}
Digits == <<"0", "1", "2", "3", "4", "5", "6", "7", "8", "9">>
Digit == {Digits[i] : i \in 1..10}
Lower == {"a", "b", "c", "l", "u"}
WordChar == Upper \cup Digit \cup Lower \cup {"_"}

DigitVal(ch) == (CHOOSE i \in 1..10 : Digits[i] = ch) - 1

ABC123 == <<"A", "B", "C", "1", "2", "3">>
XYZ999 == <<"X", "Y", "Z", "9", "9", "9">>

\* int(m.group(1)) of a run of decimal digits
RECURSIVE ToInt(_)
ToInt(ds) ==
    IF ds = <<>> THEN 0
    ELSE 10 * ToInt(SubSeq(ds, 1, Len(ds) - 1)) + DigitVal(ds[Len(ds)])

None == -1

\* re.search(r"(\d+)", s): the first maximal run of digits; None without one
extract_int(s) ==
    LET starts == {i \in 1..Len(s) : s[i] \in Digit}
    IN  IF starts = {} THEN None
        ELSE LET b == CHOOSE i \in starts : \A j \in starts : i <= j
                 e == CHOOSE i \in b..Len(s) :
                        /\ \A j \in b..i : s[j] \in Digit
                        /\ (i = Len(s) \/ s[i + 1] \notin Digit)
             IN  ToInt(SubSeq(s, b, e))

\* positions where \b([A-Z]{3}\d{3})\b matches in text t
CodeMatches(t) ==
    {i \in 1..(Len(t) - 5) :
        /\ \A j \in i..(i + 2) : t[j] \in Upper
        /\ \A j \in (i + 3)..(i + 5) : t[j] \in Digit
        /\ (i = 1 \/ t[i - 1] \notin WordChar)
        /\ (i + 5 = Len(t) \/ t[i + 6] \notin WordChar)}

\* re.search(...).group(1): the leftmost match; <<>> stands for no match
CodeSearch(t) ==
    IF CodeMatches(t) = {} THEN <<>>
    ELSE LET i == CHOOSE p \in CodeMatches(t) : \A q \in CodeMatches(t) : p <= q
         IN  SubSeq(t, i, i + 5)

\* ------------------------------------------------------------------ dict
DictKeys(d) == [i \in 1..Len(d) |-> d[i].k]
DictHas(d, key) == \E i \in 1..Len(d) : d[i].k = key
DictGet(d, key) == d[CHOOSE i \in 1..Len(d) : d[i].k = key].v
\* d[key] = val: in place for a key already there, appended otherwise
DictSet(d, key, val) ==
    IF DictHas(d, key)
    THEN [i \in 1..Len(d) |-> IF d[i].k = key THEN [k |-> key, v |-> val] ELSE d[i]]
    ELSE Append(d, [k |-> key, v |-> val])
RECURSIVE DictUpdate(_, _)
DictUpdate(d, other) ==
    IF other = <<>> THEN d
    ELSE DictUpdate(DictSet(d, other[1].k, other[1].v), Tail(other))

\* ------------------------------------------------------------------ config
PORTAL_URLS == <<"GEN.html", "MAJ.html">>

\* code.startswith(p)
StartsWith(code, p) == Len(p) <= Len(code) /\ SubSeq(code, 1, Len(p)) = p

InSeq(x, s) == \E i \in 1..Len(s) : s[i] = x

\* passes_filter that asks the prefix list before the exact list
passes_filterPrefixFirst(code) ==
    IF CODE_PREFIXES # <<>>
    THEN \E i \in 1..Len(CODE_PREFIXES) : StartsWith(code, CODE_PREFIXES[i])
    ELSE IF COURSE_CODES # <<>> THEN InSeq(code, COURSE_CODES)
         ELSE TRUE

passes_filter(code) ==
    IF COURSE_CODES # <<>> THEN InSeq(code, COURSE_CODES)
    ELSE IF CODE_PREFIXES # <<>>
         THEN \E i \in 1..Len(CODE_PREFIXES) : StartsWith(code, CODE_PREFIXES[i])
         ELSE TRUE

\* ------------------------------------------------------------------ parse_page
\* A row is [valign |-> the tr's valign attribute, tds |-> the texts of its cells].
\* Info with the comparison off by one
InfoOpenAtZero(seats) == [open |-> seats >= 0, seats |-> seats, gone |-> FALSE]

\* The record parse_page stores for a row
Info(seats) == [open |-> seats > 0, seats |-> seats, gone |-> FALSE]

\* One iteration of the loop over the rows: "skip" (continue), "raise"
\* (tds[1] of a row with a single cell: IndexError) or "put".
RowStep(tr) ==
    IF tr.tds = <<>> THEN [op |-> "skip"]
    ELSE IF tr.valign # "top" /\ Len(tr.tds) < 7 THEN [op |-> "skip"]
    ELSE IF Len(tr.tds) < 2 THEN [op |-> "raise"]
    ELSE LET code == CodeSearch(tr.tds[2])
             seats == extract_int(tr.tds[Len(tr.tds)])
         IN  IF code = <<>> THEN [op |-> "skip"]
             ELSE IF seats = None THEN [op |-> "skip"]
             ELSE [op |-> "put", code |-> code, info |-> Info(seats)]

RECURSIVE ParseRows(_, _)
ParseRows(rows, out) ==
    IF rows = <<>> THEN [raised |-> FALSE, out |-> out]
    ELSE LET r == RowStep(rows[1])
         IN  IF r.op = "raise" THEN [raised |-> TRUE, out |-> out]
             ELSE IF r.op = "skip" THEN ParseRows(Tail(rows), out)
             ELSE ParseRows(Tail(rows), DictSet(out, r.code, r.info))

parse_page(page) == ParseRows(page, <<>>)

\* ------------------------------------------------------------------ main
\* state.json: kind is
\*   "missing"      no file
\*   "unparseable"  json.loads raises
\*   "nonobject"    valid JSON that is no object (a list, a number, null)
\*   "nokey"        an object without "courses"
\*   "scalar"       an object whose "courses" is a number, a boolean or null
\*   "emptylist"    an object whose "courses" is [] or ""
\*   "list"         an object whose "courses" is a non-empty list or string
\*   "map"          an object whose "courses" is the mapping in field courses
File(kind, courses) == [kind |-> kind, courses |-> courses]

IsWrite(e) == e[1] = "write"
IsNotify(e) == e[1] # "write"

\* latest = {k:v for k,v in latest.items() if passes_filter(k)}
FilterLatest(m) == SelectSeq(m, LAMBDA e : passes_filter(e.k))

\* The first-run branch: the baseline is written, then the initial notifications
InitialEvents(latest) ==
    [i \in 1..Len(latest) |->
        <<"initial", latest[i].k, latest[i].v.open, latest[i].v.seats>>]

\* FirstRun without the write of state.json
FirstRunUnsaved(latest) ==
    [file |-> File("missing", <<>>),
     effects |-> IF INITIAL_NOTIFY THEN InitialEvents(latest) ELSE <<>>,
     outcome |-> "ok",
     first_run |-> TRUE]

FirstRun(latest) ==
    [file |-> File("map", latest),
     effects |-> <<(<<"write">>)>> \o
                 (IF INITIAL_NOTIFY THEN InitialEvents(latest) ELSE <<>>),
     outcome |-> "ok",
     first_run |-> TRUE]

\* CompareOne that notifies a seat change without storing the new record
CompareOneUnsavedSeats(acc, code, info) ==
    IF ~DictHas(acc.prev_courses, code)
    THEN [prev_courses |-> DictSet(acc.prev_courses, code, info),
          changed |-> TRUE,
          effects |-> Append(acc.effects, <<"new", code, info.open, info.seats>>)]
    ELSE LET prev == DictGet(acc.prev_courses, code)
         IN  IF prev.open # info.open
             THEN [prev_courses |-> DictSet(acc.prev_courses, code, info),
                   changed |-> TRUE,
                   effects |-> Append(acc.effects,
                       <<(IF info.open THEN "open" ELSE "closed"), code,
                         prev.seats, info.seats>>)]
             ELSE IF prev.seats # info.seats
             THEN [prev_courses |-> acc.prev_courses,
                   changed |-> TRUE,
                   effects |-> Append(acc.effects,
                       <<"seats", code, prev.seats, info.seats>>)]
             ELSE acc

\* CompareOne that takes a record flagged _gone_notified for no record
CompareOneGoneAsNew(acc, code, info) ==
    IF ~DictHas(acc.prev_courses, code) \/ DictGet(acc.prev_courses, code).gone
    THEN [prev_courses |-> DictSet(acc.prev_courses, code, info),
          changed |-> TRUE,
          effects |-> Append(acc.effects, <<"new", code, info.open, info.seats>>)]
    ELSE LET prev == DictGet(acc.prev_courses, code)
         IN  IF prev.open # info.open
             THEN [prev_courses |-> DictSet(acc.prev_courses, code, info),
                   changed |-> TRUE,
                   effects |-> Append(acc.effects,
                       <<(IF info.open THEN "open" ELSE "closed"), code,
                         prev.seats, info.seats>>)]
             ELSE IF prev.seats # info.seats
             THEN [prev_courses |-> DictSet(acc.prev_courses, code, info),
                   changed |-> TRUE,
                   effects |-> Append(acc.effects,
                       <<"seats", code, prev.seats, info.seats>>)]
             ELSE acc

\* CompareOne that carries _gone_notified over to the record it stores
CompareOneKeepingFlag(acc, code, info) ==
    IF ~DictHas(acc.prev_courses, code)
    THEN [prev_courses |-> DictSet(acc.prev_courses, code, info),
          changed |-> TRUE,
          effects |-> Append(acc.effects, <<"new", code, info.open, info.seats>>)]
    ELSE LET prev == DictGet(acc.prev_courses, code)
             kept == [info EXCEPT !.gone = prev.gone]
         IN  IF prev.open # info.open
             THEN [prev_courses |-> DictSet(acc.prev_courses, code, kept),
                   changed |-> TRUE,
                   effects |-> Append(acc.effects,
                       <<(IF info.open THEN "open" ELSE "closed"), code,
                         prev.seats, info.seats>>)]
             ELSE IF prev.seats # info.seats
             THEN [prev_courses |-> DictSet(acc.prev_courses, code, kept),
                   changed |-> TRUE,
                   effects |-> Append(acc.effects,
                       <<"seats", code, prev.seats, info.seats>>)]
             ELSE acc

\* CompareOne that tests the seat counts before the open state
CompareOneSeatsFirst(acc, code, info) ==
    IF ~DictHas(acc.prev_courses, code)
    THEN [prev_courses |-> DictSet(acc.prev_courses, code, info),
          changed |-> TRUE,
          effects |-> Append(acc.effects, <<"new", code, info.open, info.seats>>)]
    ELSE LET prev == DictGet(acc.prev_courses, code)
         IN  IF prev.seats # info.seats
             THEN [prev_courses |-> DictSet(acc.prev_courses, code, info),
                   changed |-> TRUE,
                   effects |-> Append(acc.effects,
                       <<"seats", code, prev.seats, info.seats>>)]
             ELSE IF prev.open # info.open
             THEN [prev_courses |-> DictSet(acc.prev_courses, code, info),
                   changed |-> TRUE,
                   effects |-> Append(acc.effects,
                       <<(IF info.open THEN "open" ELSE "closed"), code,
                         prev.seats, info.seats>>)]
             ELSE acc

\* One iteration of the loop over latest.items();
\* acc = [prev_courses, changed, effects]
CompareOne(acc, code, info) ==
    IF ~DictHas(acc.prev_courses, code)
    THEN [prev_courses |-> DictSet(acc.prev_courses, code, info),
          changed |-> TRUE,
          effects |-> Append(acc.effects, <<"new", code, info.open, info.seats>>)]
    ELSE LET prev == DictGet(acc.prev_courses, code)
         IN  IF prev.open # info.open
             THEN [prev_courses |-> DictSet(acc.prev_courses, code, info),
                   changed |-> TRUE,
                   effects |-> Append(acc.effects,
                       <<(IF info.open THEN "open" ELSE "closed"), code,
                         prev.seats, info.seats>>)]
             ELSE IF prev.seats # info.seats
             THEN [prev_courses |-> DictSet(acc.prev_courses, code, info),
                   changed |-> TRUE,
                   effects |-> Append(acc.effects,
                       <<"seats", code, prev.seats, info.seats>>)]
             ELSE acc

RECURSIVE CompareAll(_, _)
CompareAll(acc, items) ==
    IF items = <<>> THEN acc
    ELSE CompareAll(CompareOne(acc, items[1].k, items[1].v), Tail(items))

\* GoneOne without the test of passes_filter
GoneOneUnfiltered(acc, code, latest) ==
    IF ~DictHas(latest, code)
    THEN IF ~DictGet(acc.prev_courses, code).gone
         THEN [prev_courses |->
                  DictSet(acc.prev_courses, code,
                          [DictGet(acc.prev_courses, code) EXCEPT !.gone = TRUE]),
               changed |-> TRUE,
               effects |-> Append(acc.effects, <<"gone", code>>)]
         ELSE acc
    ELSE acc

\* GoneOne without the test of _gone_notified
GoneOneEveryRun(acc, code, latest) ==
    IF passes_filter(code) /\ ~DictHas(latest, code)
    THEN [prev_courses |->
             DictSet(acc.prev_courses, code,
                     [DictGet(acc.prev_courses, code) EXCEPT !.gone = TRUE]),
          changed |-> TRUE,
          effects |-> Append(acc.effects, <<"gone", code>>)]
    ELSE acc

\* GoneOne that drops the record of a disappeared code
GoneOneDeleting(acc, code, latest) ==
    IF passes_filter(code) /\ ~DictHas(latest, code)
    THEN [prev_courses |-> SelectSeq(acc.prev_courses, LAMBDA e : e.k # code),
          changed |-> TRUE,
          effects |-> Append(acc.effects, <<"gone", code>>)]
    ELSE acc

\* One iteration of the loop over list(prev_courses.keys())
GoneOne(acc, code, latest) ==
    IF passes_filter(code) /\ ~DictHas(latest, code)
    THEN IF ~DictGet(acc.prev_courses, code).gone
         THEN [prev_courses |->
                  DictSet(acc.prev_courses, code,
                          [DictGet(acc.prev_courses, code) EXCEPT !.gone = TRUE]),
               changed |-> TRUE,
               effects |-> Append(acc.effects, <<"gone", code>>)]
         ELSE acc
    ELSE acc

RECURSIVE GoneAll(_, _, _)
GoneAll(acc, keys, latest) ==
    IF keys = <<>> THEN acc
    ELSE GoneAll(GoneOne(acc, keys[1], latest), Tail(keys), latest)

\* Persist that never writes state.json
PersistDiscarding(file, acc) ==
    [file |-> file, effects |-> acc.effects]

\* Persist that writes state.json whether or not anything changed
PersistAlways(file, acc) ==
    [file |-> File("map", acc.prev_courses),
     effects |-> Append(acc.effects, <<"write">>)]

\* if changed: state["courses"] = prev_courses; write state.json
Persist(file, acc) ==
    IF acc.changed
    THEN [file |-> File("map", acc.prev_courses),
          effects |-> Append(acc.effects, <<"write">>)]
    ELSE [file |-> file, effects |-> acc.effects]

\* Steady with the scan for disappeared codes ahead of the comparison
SteadyScanFirst(file, latest) ==
    LET a0 == [prev_courses |-> file.courses, changed |-> FALSE, effects |-> <<>>]
        a1 == GoneAll(a0, DictKeys(a0.prev_courses), latest)
        a2 == CompareAll(a1, latest)
        p == Persist(file, a2)
    IN  [file |-> p.file, effects |-> p.effects, outcome |-> "ok",
         first_run |-> FALSE]

\* The steady-state branch: compare, scan for disappeared codes, persist
Steady(file, latest) ==
    LET a0 == [prev_courses |-> file.courses, changed |-> FALSE, effects |-> <<>>]
        a1 == CompareAll(a0, latest)
        a2 == GoneAll(a1, DictKeys(a1.prev_courses), latest)
        p == Persist(file, a2)
    IN  [file |-> p.file, effects |-> p.effects, outcome |-> "ok",
         first_run |-> FALSE]

\* An exception that leaves main before any notify() or write_text()
Crash(file) ==
    [file |-> file, effects |-> <<>>, outcome |-> "state_error", first_run |-> FALSE]

\* Lines 68-78: whether reading the state yields an empty baseline
LoadsEmpty(file) ==
    \/ file.kind \in {"missing", "unparseable", "nokey", "emptylist"}
    \/ file.kind = "map" /\ Len(file.courses) = 0

\* Lines 68-78: whether reading the state raises (state.get of a non-object,
\* len of a scalar) or the comparison does (.get / .keys of a list)
LoadRaises(file) == file.kind \in {"nonobject", "scalar", "list"}

\* Main without the first-run branch
MainAlwaysComparing(file, m) ==
    IF LoadRaises(file) THEN Crash(file)
    ELSE Steady(File("map", IF file.kind = "map" THEN file.courses ELSE <<>>),
                FilterLatest(m))

\* main() after fetch_all() returned m
Main(file, m) ==
    LET latest == FilterLatest(m)
    IN  IF LoadRaises(file) THEN Crash(file)
        ELSE IF LoadsEmpty(file) THEN FirstRun(latest)
        ELSE Steady(file, latest)

\* ------------------------------------------------------------------ notify
\* notify whose webhook failure is not caught
notifyRaising(postFails) ==
    [warned |-> FALSE, raised |-> DISCORD_WEBHOOK_URL # "" /\ postFails]

\* notify(msg) after its print: with a webhook configured the message is
\* posted, and a failure of the post (transport, timeout, status) is caught
\* and reported on stderr
notify(postFails) ==
    [warned |-> DISCORD_WEBHOOK_URL # "" /\ postFails, raised |-> FALSE]

\* The effects of main in order, the j-th notify() call failing to deliver
\* when j is in fails; d = [effects, warnings, raised]
RECURSIVE Deliver(_, _, _, _)
Deliver(effs, fails, j, d) ==
    IF effs = <<>> \/ d.raised THEN d
    ELSE IF IsWrite(effs[1])
    THEN Deliver(Tail(effs), fails, j, [d EXCEPT !.effects = Append(@, effs[1])])
    ELSE LET n == notify(j \in fails)
         IN  Deliver(Tail(effs), fails, j + 1,
                     [effects |-> Append(d.effects, effs[1]),
                      warnings |-> d.warnings + (IF n.warned THEN 1 ELSE 0),
                      raised |-> n.raised])

\* ------------------------------------------------------------------ inputs
RECURSIVE SeqsUpTo(_, _)
SeqsUpTo(S, n) ==
    IF n = 0 THEN {<<>>}
    ELSE LET shorter == SeqsUpTo(S, n - 1)
         IN  shorter \cup {Append(q, x) : q \in {t \in shorter : Len(t) = n - 1}, x \in S}

Codes == {ABC123, XYZ999}
\* Last-cell texts of the data rows: closed, and open with one or two seats
SeatTexts == {<<"0">>, <<"1">>, <<"2">>}
Filler == <<"l">>

\* Rows of the pages the monitor fetches: data rows, a header row, and a
\* top-aligned row of one cell
DataRows == {[valign |-> "top", tds |-> <<Filler, c, s>>] : c \in Codes, s \in SeatTexts}
HeaderRow == [valign |-> "", tds |-> <<Filler, Filler>>]
OneCellRow == [valign |-> "top", tds |-> <<Filler>>]
MainRows == DataRows \cup {HeaderRow, OneCellRow}
MainPages == SeqsUpTo(MainRows, MaxRows)

\* The filter configurations explored: none, an exact list (with a prefix
\* list that disagrees with it), a prefix list alone
FilterConfigs ==
    {<< <<>>, <<>> >>,
     << <<ABC123>>, << <<"X">> >> >>,
     << <<>>, << <<"X", "Y">> >> >>}

InitialFiles ==
    {File(k, <<>>) : k \in {"missing", "unparseable", "nonobject", "nokey",
                            "scalar", "emptylist", "list"}}

\* ------------------------------------------------------------------ actions
Init ==
    /\ \E f \in FilterConfigs : COURSE_CODES = f[1] /\ CODE_PREFIXES = f[2]
    /\ INITIAL_NOTIFY \in BOOLEAN
    /\ DISCORD_WEBHOOK_URL = ""
    /\ stateFile \in InitialFiles
    /\ pc = "fetch"
    /\ url = 1
    /\ merged = <<>>
    /\ effects = <<>>
    /\ warnings = 0
    /\ outcome = "running"
    /\ first_run = FALSE
    /\ fetchFailed = FALSE
    /\ fileBefore = stateFile
    /\ seenBefore = {}
    /\ goneBefore = {}
    /\ html = <<>>

\* parse_page of every page, tabulated
ParsedPages == [p \in MainPages |-> parse_page(p)]

\* A failed request skipped: fetch_all goes on with the next URL
AfterFetchErrorSkipping == [pc |-> "fetch", outcome |-> "running", url |-> url + 1]

\* r.raise_for_status() (or requests.get) raises: the exception leaves main
AfterFetchError == [pc |-> "exit", outcome |-> "fetch_error", url |-> url]

\* requests.get(url) answers with page: parse it and merge it
FetchOk(page) ==
    /\ pc = "fetch"
    /\ url <= Len(PORTAL_URLS)
    /\ LET r == ParsedPages[page]
       IN  IF r.raised
           THEN /\ pc' = "exit"
                /\ outcome' = "parse_error"
                /\ UNCHANGED <<url, merged>>
           ELSE /\ merged' = DictUpdate(merged, r.out)
                /\ url' = url + 1
                /\ UNCHANGED <<pc, outcome>>
    /\ UNCHANGED <<COURSE_CODES, CODE_PREFIXES, INITIAL_NOTIFY, DISCORD_WEBHOOK_URL,
                   stateFile, effects, warnings, first_run, fetchFailed, fileBefore,
                   seenBefore, goneBefore, html>>

\* requests.get(url) fails (status, timeout, transport)
FetchFail ==
    /\ pc = "fetch"
    /\ url <= Len(PORTAL_URLS)
    /\ fetchFailed' = TRUE
    /\ pc' = AfterFetchError.pc
    /\ outcome' = AfterFetchError.outcome
    /\ url' = AfterFetchError.url
    /\ UNCHANGED <<COURSE_CODES, CODE_PREFIXES, INITIAL_NOTIFY, DISCORD_WEBHOOK_URL,
                   stateFile, merged, effects, warnings, first_run, fileBefore,
                   seenBefore, goneBefore, html>>

\* The notify() calls of a run whose post may fail: no run makes more calls
\* than there are codes
FailSets == SUBSET (1..Cardinality(Codes))

\* fetch_all() returned: the rest of main(), the posts of the notify() calls
\* numbered in fails failing
MainStep ==
    /\ pc = "fetch"
    /\ url > Len(PORTAL_URLS)
    /\ \E fails \in FailSets :
          /\ DISCORD_WEBHOOK_URL = "" => fails = {}
          /\ LET r == Main(stateFile, merged)
                 d == Deliver(r.effects, fails, 1,
                              [effects |-> <<>>, warnings |-> 0, raised |-> FALSE])
             IN  /\ fails \subseteq 1..Len(SelectSeq(r.effects, IsNotify))
                 /\ stateFile' = IF d.raised /\ SelectSeq(d.effects, IsWrite) = <<>>
                                 THEN stateFile ELSE r.file
                 /\ effects' = d.effects
                 /\ warnings' = d.warnings
                 /\ outcome' = IF d.raised THEN "notify_error" ELSE r.outcome
                 /\ first_run' = r.first_run
    /\ pc' = "exit"
    /\ UNCHANGED <<COURSE_CODES, CODE_PREFIXES, INITIAL_NOTIFY, DISCORD_WEBHOOK_URL,
                   url, merged, fetchFailed, fileBefore, seenBefore, goneBefore, html>>

KeySet(d) == {d[i].k : i \in 1..Len(d)}

\* The scheduler invokes the script again, with the environment it has then
StartRun(f, n) ==
    /\ pc = "exit"
    /\ COURSE_CODES' = f[1]
    /\ CODE_PREFIXES' = f[2]
    /\ INITIAL_NOTIFY' = n
    /\ pc' = "fetch"
    /\ url' = 1
    /\ merged' = <<>>
    /\ effects' = <<>>
    /\ warnings' = 0
    /\ outcome' = "running"
    /\ first_run' = FALSE
    /\ fetchFailed' = FALSE
    /\ fileBefore' = stateFile
    /\ UNCHANGED <<DISCORD_WEBHOOK_URL, stateFile, seenBefore, goneBefore, html>>

Next ==
    \/ \E page \in MainPages : FetchOk(page)
    \/ FetchFail
    \/ MainStep
    \/ \E f \in FilterConfigs, n \in BOOLEAN : StartRun(f, n)

Spec == Init /\ [][Next]_vars

\* ------------------------------------------------------------------ episodes
\* Runs under one unchanging configuration, remembering which codes the
\* previous completed run saw.
InitEpisodes == Init /\ INITIAL_NOTIFY = FALSE /\ stateFile = File("missing", <<>>)

\* The codes this run's disappearance events name
GoneCodes(effs) == {effs[i][2] : i \in {j \in 1..Len(effs) : effs[j][1] = "gone"}}

Rerun ==
    /\ pc = "exit"
    /\ seenBefore' = IF outcome = "ok" THEN KeySet(FilterLatest(merged)) ELSE seenBefore
    /\ goneBefore' = goneBefore \cup GoneCodes(effects)
    /\ pc' = "fetch"
    /\ url' = 1
    /\ merged' = <<>>
    /\ effects' = <<>>
    /\ warnings' = 0
    /\ outcome' = "running"
    /\ first_run' = FALSE
    /\ fetchFailed' = FALSE
    /\ fileBefore' = stateFile
    /\ UNCHANGED <<COURSE_CODES, CODE_PREFIXES, INITIAL_NOTIFY, DISCORD_WEBHOOK_URL,
                   stateFile, html>>

NextEpisodes ==
    \/ \E page \in MainPages : FetchOk(page)
    \/ FetchFail
    \/ MainStep
    \/ Rerun

SpecEpisodes == InitEpisodes /\ [][NextEpisodes]_vars

\* ------------------------------------------------------------------ delivery
\* Runs with a webhook configured, no filter and INITIAL_NOTIFY on, the posts
\* failing at will.
InitDelivery ==
    /\ COURSE_CODES = <<>>
    /\ CODE_PREFIXES = <<>>
    /\ INITIAL_NOTIFY = TRUE
    /\ DISCORD_WEBHOOK_URL = "hook"
    /\ stateFile = File("missing", <<>>)
    /\ pc = "fetch"
    /\ url = 1
    /\ merged = <<>>
    /\ effects = <<>>
    /\ warnings = 0
    /\ outcome = "running"
    /\ first_run = FALSE
    /\ fetchFailed = FALSE
    /\ fileBefore = stateFile
    /\ seenBefore = {}
    /\ goneBefore = {}
    /\ html = <<>>

SpecDelivery == InitDelivery /\ [][NextEpisodes]_vars

\* ------------------------------------------------------------------ parse alone
\* parse_page applied to one page drawn from a wider set of rows.
CodeCells ==
    {ABC123,
     <<"a", "b", "c", "1", "2", "3">>,
     <<"X">> \o ABC123,
     XYZ999 \o <<" ", "l">>}
LastCells == {<<"0">>, <<"1", "2", " ", "l">>, <<"l">>}
CellCounts == {0, 1, 2, 3, 7}

\* A row of n cells: the code text in the second, the seat text in the last
MkRow(valign, n, codeText, lastText) ==
    [valign |-> valign,
     tds |-> [i \in 1..n |-> IF i = n THEN lastText
                             ELSE IF i = 2 THEN codeText ELSE Filler]]

ParseRowSet ==
    {MkRow(v, n, c, l) : v \in {"top", ""}, n \in CellCounts, c \in CodeCells,
                         l \in LastCells}
ParsePages == SeqsUpTo(ParseRowSet, MaxParseRows)

InitParse ==
    /\ COURSE_CODES = <<>>
    /\ CODE_PREFIXES = <<>>
    /\ INITIAL_NOTIFY = FALSE
    /\ DISCORD_WEBHOOK_URL = ""
    /\ stateFile = File("missing", <<>>)
    /\ pc = "parse"
    /\ url = 1
    /\ merged = <<>>
    /\ effects = <<>>
    /\ warnings = 0
    /\ outcome = "running"
    /\ first_run = FALSE
    /\ fetchFailed = FALSE
    /\ fileBefore = stateFile
    /\ seenBefore = {}
    /\ goneBefore = {}
    /\ html \in ParsePages

ParseStep ==
    /\ pc = "parse"
    /\ LET r == parse_page(html)
       IN  /\ merged' = r.out
           /\ outcome' = IF r.raised THEN "parse_error" ELSE "ok"
    /\ pc' = "exit"
    /\ UNCHANGED <<COURSE_CODES, CODE_PREFIXES, INITIAL_NOTIFY, DISCORD_WEBHOOK_URL,
                   stateFile, url, effects, warnings, first_run, fetchFailed,
                   fileBefore, seenBefore, goneBefore, html>>

NextParse == ParseStep

SpecParse == InitParse /\ [][NextParse]_vars

\* ------------------------------------------------------------------ filter alone
\* Line 66 applied to one fetched mapping under a wider set of configurations.
XBC123 == <<"X", "B", "C", "1", "2", "3">>
FilterCodes == <<ABC123, XYZ999, XBC123>>
\* COURSE_CODES: unset, one code, two codes, an entry that is only the start
\* of a code, an entry in lower case
ExactLists ==
    {<<>>,
     <<ABC123>>,
     <<XYZ999, ABC123>>,
     << <<"A", "B", "C">> >>,
     << <<"a", "b", "c", "1", "2", "3">> >>}
\* CODE_PREFIXES: unset, one letter, two letters, two prefixes, a whole code,
\* a text longer than a code
PrefixLists ==
    {<<>>,
     << <<"X">> >>,
     << <<"X", "Y">> >>,
     << <<"X", "B">>, <<"A", "B", "C">> >>,
     <<XYZ999>>,
     << ABC123 \o <<"0">> >>}
\* The fetched mappings: the codes of FilterCodes at the indexes in S, in order
FilterInput(S) ==
    LET all == [i \in 1..Len(FilterCodes) |-> [k |-> FilterCodes[i], v |-> Info(1)]]
    IN  SelectSeq(all, LAMBDA e : \E i \in S : FilterCodes[i] = e.k)

InitFilter ==
    /\ COURSE_CODES \in ExactLists
    /\ CODE_PREFIXES \in PrefixLists
    /\ INITIAL_NOTIFY = FALSE
    /\ DISCORD_WEBHOOK_URL = ""
    /\ stateFile = File("missing", <<>>)
    /\ pc = "filter"
    /\ url = 1
    /\ merged \in {FilterInput(S) : S \in SUBSET (1..Len(FilterCodes))}
    /\ effects = <<>>
    /\ warnings = 0
    /\ outcome = "running"
    /\ first_run = FALSE
    /\ fetchFailed = FALSE
    /\ fileBefore = stateFile
    /\ seenBefore = {}
    /\ goneBefore = {}
    /\ html = <<>>

\* latest = {k:v for k,v in latest.items() if passes_filter(k)}
FilterStep ==
    /\ pc = "filter"
    /\ merged' = FilterLatest(merged)
    /\ pc' = "exit"
    /\ outcome' = "ok"
    /\ UNCHANGED <<COURSE_CODES, CODE_PREFIXES, INITIAL_NOTIFY, DISCORD_WEBHOOK_URL,
                   stateFile, url, effects, warnings, first_run, fetchFailed,
                   fileBefore, seenBefore, goneBefore, html>>

NextFilter == FilterStep

SpecFilter == InitFilter /\ [][NextFilter]_vars

\* ------------------------------------------------------------------ properties
latest == FilterLatest(merged)
Events == SelectSeq(effects, IsNotify)
Writes == Len(SelectSeq(effects, IsWrite))
Baseline(file) == IF file.kind = "map" THEN file.courses ELSE <<>>
GoneCount(c) == Len(SelectSeq(Events, LAMBDA e : e = <<"gone", c>>))
Flagged(file, c) == DictHas(Baseline(file), c) /\ DictGet(Baseline(file), c).gone
\* main() ran to its end or to an exception of its own (fetch_all returned)
MainRan == pc = "exit" /\ outcome \in {"ok", "state_error"}
Completed == pc = "exit" /\ outcome = "ok"

\* C1: a run that finds a code flagged goneNotified in the stored baseline and
\* still absent from the filtered latest emits no disappearance event for it
\* and leaves the flag set, so no following run of the absence does either.
C1_GoneNotifiedOnce ==
    pc = "exit" =>
        \A c \in Codes :
            (Flagged(fileBefore, c) /\ ~DictHas(latest, c)) =>
                (GoneCount(c) = 0 /\ Flagged(stateFile, c))

C1_Witness ==
    /\ Completed
    /\ ~first_run
    /\ \E c \in Codes :
          Flagged(fileBefore, c) /\ ~DictHas(latest, c) /\ passes_filter(c)

\* C2: a code present in the previous completed run's latest and absent from
\* this completed run's latest (a new absence episode, the configuration
\* unchanged) gets exactly one disappearance event in this run.
C2_NewEpisodeNotifiedOnce ==
    Completed =>
        \A c \in seenBefore :
            (~DictHas(latest, c)) => GoneCount(c) = 1

\* C3: after a completed run, running main again on the same merged snapshot
\* and the state file the run left emits no notification, leaves the state
\* file as it is and, in the steady state, writes nothing.
C3_Idempotent ==
    Completed =>
        LET again == Main(stateFile, merged)
        IN  /\ SelectSeq(again.effects, IsNotify) = <<>>
            /\ again.file = stateFile
            /\ (~again.first_run => again.effects = <<>>)

C3_Witness ==
    /\ Completed
    /\ ~first_run
    /\ Events # <<>>
    /\ stateFile # fileBefore

\* C4: once a fetch of the run has failed, at whatever position, the run is
\* over with a fetch error, has notified nothing and written nothing, and
\* state.json is what it was when the run started.
C4_FetchErrorAborts ==
    fetchFailed =>
        /\ pc = "exit"
        /\ outcome = "fetch_error"
        /\ effects = <<>>
        /\ stateFile = fileBefore

C4_Witness ==
    /\ fetchFailed
    /\ url = 2
    /\ FilterLatest(merged) # <<>>
    /\ Baseline(stateFile) # <<>>
    /\ ~DictHas(Baseline(stateFile), merged[1].k)

\* C5: whenever state.json is missing or is anything but an object holding a
\* mapping under "courses", main completes and takes the first-run branch.
C5_BadStateIsFirstRun ==
    (MainRan /\ fileBefore.kind # "map") => (outcome = "ok" /\ first_run)

\* C6: parse_page completes on every page, and every entry of its result
\* comes from a row with a course code in its second cell and an integer in
\* its last cell.
C6_ExtractorNeverRaises ==
    pc = "exit" =>
        /\ outcome # "parse_error"
        /\ \A c \in KeySet(merged) :
              \E i \in 1..Len(html) :
                  /\ Len(html[i].tds) >= 2
                  /\ CodeSearch(html[i].tds[2]) = c
                  /\ extract_int(html[i].tds[Len(html[i].tds)]) # None

\* C7: a run that loads an empty baseline (no file, unparseable text, no
\* "courses", or an empty one) stores exactly the filtered latest
\* as the baseline and emits nothing when INITIAL_NOTIFY is off, and one
\* initial event per entry of latest, in order, and nothing else when on.
C7_FirstRun ==
    (MainRan /\ Baseline(fileBefore) = <<>>
             /\ fileBefore.kind \in {"missing", "unparseable", "nokey", "emptylist", "map"}) =>
        /\ outcome = "ok"
        /\ stateFile = File("map", latest)
        /\ Len(Events) = (IF INITIAL_NOTIFY THEN Len(latest) ELSE 0)
        /\ \A i \in 1..Len(Events) :
              Events[i] = <<"initial", latest[i].k, latest[i].v.open, latest[i].v.seats>>

C7_Witness ==
    /\ MainRan
    /\ fileBefore.kind = "missing"
    /\ INITIAL_NOTIFY
    /\ Len(latest) = 2
    /\ Len(Events) = 2

\* C8 as stated: a completed first run has written state.json and left a
\* baseline that is not empty.
C8_FirstRunLeavesBaseline ==
    (Completed /\ first_run) => (Writes = 1 /\ Baseline(stateFile) # <<>>)

\* C8 amended: a completed first run has written state.json once, and the
\* baseline it leaves is empty exactly when the filtered latest is empty; the
\* next run is then a first run again, and a steady-state run otherwise.
C8_FirstRunPersistsLatest ==
    (Completed /\ first_run) =>
        /\ Writes = 1
        /\ stateFile.kind = "map"
        /\ (Baseline(stateFile) = <<>>) <=> (latest = <<>>)
        /\ LoadsEmpty(stateFile) <=> (latest = <<>>)
        /\ ~LoadRaises(stateFile)

C8_Witness ==
    /\ Completed
    /\ first_run
    /\ latest # <<>>
    /\ ~LoadsEmpty(stateFile)

\* C9: every record of the stored baseline has open = (seats > 0), the
\* records of absent codes flagged goneNotified included.
C9_OpenIffSeats ==
    \A i \in 1..Len(Baseline(stateFile)) :
        Baseline(stateFile)[i].v.open = (Baseline(stateFile)[i].v.seats > 0)

C9_Witness ==
    /\ Completed
    /\ \E c \in Codes :
          /\ Flagged(stateFile, c)
          /\ ~DictHas(latest, c)
          /\ DictGet(Baseline(stateFile), c).seats > 0
    /\ \E c \in Codes :
          /\ DictHas(latest, c)
          /\ DictGet(Baseline(stateFile), c).seats = 0

\* C10: every code of the baseline stored when the run started is a code of
\* the stored baseline at every later point of the run.
C10_Retention ==
    KeySet(Baseline(fileBefore)) \subseteq KeySet(Baseline(stateFile))

C10_Witness ==
    /\ Completed
    /\ stateFile # fileBefore
    /\ \E c \in Codes :
          /\ DictHas(Baseline(fileBefore), c)
          /\ ~DictHas(latest, c)
          /\ GoneCount(c) = 1

\* C11: a completed steady-state run has written state.json exactly when it
\* emitted at least one event; a run that emitted none leaves state.json as
\* it was when the run started; and no run, at any point, has written
\* state.json more than once.
C11_WriteIffEvent ==
    /\ Writes <= 1
    /\ (Completed /\ ~first_run) =>
          /\ (Writes = 1) <=> (Events # <<>>)
          /\ (Events = <<>>) => (stateFile = fileBefore)

C11_Witness ==
    /\ Completed
    /\ ~first_run
    /\ latest # <<>>
    /\ Events = <<>>
    /\ Writes = 0
    /\ \E c \in Codes : Flagged(fileBefore, c) /\ ~DictHas(latest, c)

\* C12: the filter keeps exactly the entries it should, in their order: with
\* a non-empty exact list the codes that are entries of that list, whatever
\* the prefix list holds; else with a non-empty prefix list the codes that
\* begin with one of its entries; else every code.
C12_FilterPriority ==
    [][pc = "filter" =>
          merged' = SelectSeq(merged, LAMBDA e :
              IF Len(COURSE_CODES) > 0
              THEN e.k \in {COURSE_CODES[i] : i \in DOMAIN COURSE_CODES}
              ELSE IF Len(CODE_PREFIXES) > 0
              THEN \E q \in {CODE_PREFIXES[i] : i \in DOMAIN CODE_PREFIXES} :
                      /\ Len(q) <= Len(e.k)
                      /\ \A j \in 1..Len(q) : e.k[j] = q[j]
              ELSE TRUE)]_vars

C12_Witness ==
    /\ pc = "exit"
    /\ COURSE_CODES = <<ABC123>>
    /\ CODE_PREFIXES = << <<"X">> >>
    /\ KeySet(merged) = {ABC123}

\* C13: with a webhook configured, whichever posts of a run fail, the run
\* ends as main alone determines it from the state file it started with and
\* the merged snapshot: the same messages in the same order, the same write,
\* the same state.json, and no exception.
C13_DeliveryFailureHarmless ==
    (pc = "exit" /\ outcome \notin {"fetch_error", "parse_error"}) =>
        LET r == Main(fileBefore, merged)
        IN  /\ outcome = "ok"
            /\ effects = r.effects
            /\ stateFile = r.file

C13_Witness ==
    /\ Completed
    /\ ~first_run
    /\ warnings = 2
    /\ Len(Events) = 2
    /\ Writes = 1
    /\ stateFile # fileBefore

\* C14: in a completed steady-state run every code of latest has at most one
\* event, the first that applies of: a new-course event with the latest open
\* and seats when the stored baseline had no record of the code; an opened or
\* closed event when the stored open differs; a seat-change event when only
\* the seats differ; none. The three events carry the stored and the latest
\* seat counts, after them the stored record is exactly the latest one, and
\* with no event it is the record stored before.
C14_Classification ==
    (Completed /\ ~first_run) =>
        \A i \in 1..Len(latest) :
            LET c == latest[i].k
                info == latest[i].v
                evs == SelectSeq(Events, LAMBDA e : e[2] = c)
                before == Baseline(fileBefore)
                after == Baseline(stateFile)
            IN  /\ Len(evs) <= 1
                /\ DictHas(after, c)
                /\ IF ~DictHas(before, c)
                   THEN /\ Len(evs) = 1
                        /\ evs[1][1] = "new"
                        /\ evs[1][3] = info.open
                        /\ evs[1][4] = info.seats
                        /\ DictGet(after, c) = info
                   ELSE IF DictGet(before, c).open # info.open
                   THEN /\ Len(evs) = 1
                        /\ evs[1][1] = (IF info.open THEN "open" ELSE "closed")
                        /\ evs[1][3] = DictGet(before, c).seats
                        /\ evs[1][4] = info.seats
                        /\ DictGet(after, c) = info
                   ELSE IF DictGet(before, c).seats # info.seats
                   THEN /\ Len(evs) = 1
                        /\ evs[1][1] = "seats"
                        /\ evs[1][3] = DictGet(before, c).seats
                        /\ evs[1][4] = info.seats
                        /\ DictGet(after, c) = info
                   ELSE /\ evs = <<>>
                        /\ DictGet(after, c) = DictGet(before, c)

C14_Witness ==
    /\ Completed
    /\ ~first_run
    /\ \E i \in 1..Len(latest) :
          /\ DictHas(Baseline(fileBefore), latest[i].k)
          /\ ~DictGet(Baseline(fileBefore), latest[i].k).open
          /\ latest[i].v.seats = 2
          /\ Events = << <<"open", latest[i].k, 0, 2>> >>

\* C15: in a completed steady-state run no disappearance event comes before
\* an event of another kind; the events of the other kinds name codes in the
\* order latest holds them, and the disappearance events name codes in the
\* order the stored baseline held them.
C15_EventOrder ==
    (Completed /\ ~first_run) =>
        \A i, j \in 1..Len(Events) :
            i < j =>
                LET ei == Events[i]
                    ej == Events[j]
                    keys == IF ej[1] = "gone" THEN DictKeys(Baseline(fileBefore))
                            ELSE DictKeys(latest)
                IN  /\ ei[1] = "gone" => ej[1] = "gone"
                    /\ ((ei[1] = "gone") <=> (ej[1] = "gone")) =>
                          \E a, b \in 1..Len(keys) :
                              a < b /\ keys[a] = ei[2] /\ keys[b] = ej[2]

C15_Witness ==
    /\ Completed
    /\ ~first_run
    /\ Len(Events) = 2
    /\ Events[1][1] # "gone"
    /\ Events[2][1] = "gone"

\* Whether the filtered latest holds code c with open or seats other than
\* those of the record state.json held when the run started
ReappearsChanged(c) ==
    /\ DictHas(latest, c)
    /\ DictHas(Baseline(fileBefore), c)
    /\ \/ DictGet(latest, c).open # DictGet(Baseline(fileBefore), c).open
       \/ DictGet(latest, c).seats # DictGet(Baseline(fileBefore), c).seats

\* C16 as stated: a goneNotified flag that is set stays set, and a code an
\* earlier run emitted a disappearance event for gets no disappearance event
\* in a later run.
C16_FlagNeverCleared ==
    pc = "exit" =>
        \A c \in Codes :
            /\ Flagged(fileBefore, c) => Flagged(stateFile, c)
            /\ c \in goneBefore => GoneCount(c) = 0

\* C16 amended: a run emits no disappearance event for a code whose flag is
\* set when it starts, and leaves that flag set unless it completes with the
\* code in the filtered latest with other open or seats than stored, when it
\* stores the latest record without the flag. So a code with an earlier
\* disappearance event gets another one only in a run that found its flag
\* cleared by such a replacement.
C16_FlagClearedByReplacement ==
    pc = "exit" =>
        \A c \in Codes :
            /\ Flagged(fileBefore, c) =>
                  /\ GoneCount(c) = 0
                  /\ Flagged(stateFile, c) <=> ~(Completed /\ ReappearsChanged(c))
            /\ (c \in goneBefore /\ GoneCount(c) > 0) =>
                  /\ GoneCount(c) = 1
                  /\ DictHas(Baseline(fileBefore), c)
                  /\ ~Flagged(fileBefore, c)

C16_Witness ==
    /\ Completed
    /\ \E c \in goneBefore : GoneCount(c) = 1 /\ Flagged(stateFile, c)

\* C17: a completed run that finds a code flagged goneNotified in the stored
\* baseline and present in the filtered latest emits no new-course event for
\* it; with other open or seats than stored it emits exactly one event for
\* the code, an opened, closed or seat-change event; with the same open and
\* seats it emits nothing for the code and leaves its record, flag included,
\* as stored.
C17_ReappearanceIsNotNew ==
    Completed =>
        \A c \in Codes :
            (Flagged(fileBefore, c) /\ DictHas(latest, c)) =>
                LET evs == SelectSeq(Events, LAMBDA e : e[2] = c)
                IN  /\ \A i \in 1..Len(evs) : evs[i][1] \notin {"new", "initial"}
                    /\ IF ReappearsChanged(c)
                       THEN /\ Len(evs) = 1
                            /\ evs[1][1] \in {"open", "closed", "seats"}
                       ELSE /\ evs = <<>>
                            /\ DictGet(Baseline(stateFile), c)
                                  = DictGet(Baseline(fileBefore), c)

C17_Witness ==
    /\ Completed
    /\ \E c \in Codes :
          /\ Flagged(fileBefore, c)
          /\ DictHas(latest, c)
          /\ ~ReappearsChanged(c)
          /\ Flagged(stateFile, c)

\* C18: at every point of every run, first run or steady state, no write of
\* state.json has a notification after it: all notifications of the run come
\* before the write.
C18_NotifyBeforePersist ==
    \A i, j \in 1..Len(effects) :
        (i < j /\ IsWrite(effects[i])) => ~IsNotify(effects[j])

\* C19: in a completed run a code has a disappearance event only if the
\* stored baseline held it unflagged, it passes the filter and the filtered
\* latest lacks it; it then has one such event, and its record afterwards is
\* the stored one with the flag set, open and seats as stored. Every event
\* of the run names a code that passes the filter.
C19_GoneScanFrame ==
    Completed =>
        /\ \A c \in Codes :
              GoneCount(c) > 0 =>
                  /\ GoneCount(c) = 1
                  /\ DictHas(Baseline(fileBefore), c)
                  /\ passes_filter(c)
                  /\ ~DictHas(latest, c)
                  /\ ~Flagged(fileBefore, c)
                  /\ DictGet(Baseline(stateFile), c)
                        = [DictGet(Baseline(fileBefore), c) EXCEPT !.gone = TRUE]
        /\ \A i \in 1..Len(Events) : passes_filter(Events[i][2])

C19_Witness ==
    /\ Completed
    /\ \E c, d \in Codes :
          /\ GoneCount(c) = 1
          /\ DictGet(Baseline(stateFile), c).seats > 0
          /\ DictHas(Baseline(fileBefore), d)
          /\ ~Flagged(fileBefore, d)
          /\ ~passes_filter(d)
          /\ DictHas(merged, d)

\* C20: after a completed run, first run or steady state, state.json holds
\* for every code of the filtered latest a record with the open and the
\* seats latest has for it, whether or not the run emitted an event for it.
C20_BaselineTracksLatest ==
    Completed =>
        \A i \in 1..Len(latest) :
            /\ DictHas(Baseline(stateFile), latest[i].k)
            /\ DictGet(Baseline(stateFile), latest[i].k).open = latest[i].v.open
            /\ DictGet(Baseline(stateFile), latest[i].k).seats = latest[i].v.seats

C20_Witness ==
    /\ Completed
    /\ ~first_run
    /\ Len(latest) = 2
    /\ Len(Events) = 1
    /\ Events[1][1] = "seats"
    /\ Events[1][2] = latest[2].k
    /\ Flagged(stateFile, latest[1].k)

====
